---- MODULE Spec2Model ----
(***************************************************************************)
(* reqwest-graphql: GQLClient (src/src/client.rs) and GraphQLError         *)
(* (src/src/error.rs).                                                     *)
(*                                                                         *)
(* A Rust String is a sequence of atoms; the atom NL is the line feed and  *)
(* every other atom stands for a run of characters holding no line feed    *)
(* and no double quote.  A JSON value is a record tagged by t.  Option<T>  *)
(* is None or Some(x).                                                     *)
(***************************************************************************)
EXTENDS Integers, Sequences, FiniteSets, TLC

\* ------------------------------------------------------------------ bounds

\* Longest `errors` array a server response of the model carries.
MaxErrors == 2
\* Number of query_with_vars calls in flight on the shared client.
NumCalls == 2
\* Largest header mapping handed to new_with_headers.
MaxHeaders == 2

\* ------------------------------------------------------------- Option, text

NL == "\n"

None == [some |-> FALSE]
Some(x) == [some |-> TRUE, v |-> x]

RECURSIVE Concat(_)
\* The concatenation of a sequence of texts.
Concat(ss) == IF ss = <<>> THEN <<>> ELSE Head(ss) \o Concat(Tail(ss))

RECURSIVE Join(_, _)
\* The texts of ss with sep between them.
Join(ss, sep) ==
    IF ss = <<>> THEN <<>>
    ELSE IF Len(ss) = 1 THEN ss[1]
    ELSE ss[1] \o sep \o Join(Tail(ss), sep)

RECURSIVE Lines(_)
\* str::lines: the text cut at every line feed; a final line feed ends the
\* last line and opens no further one.
Lines(s) ==
    IF s = <<>> THEN <<>>
    ELSE LET nls == {i \in 1..Len(s) : s[i] = NL}
         IN  IF nls = {} THEN <<s>>
             ELSE LET k == CHOOSE i \in nls : \A j \in nls : i <= j
                  IN  <<SubSeq(s, 1, k - 1)>> \o Lines(SubSeq(s, k + 1, Len(s)))

\* --------------------------------------------------------------- JSON values

JNull == [t |-> "null"]
JNum(n) == [t |-> "num", n |-> n]
JStr(s) == [t |-> "str", s |-> s]
JArr(a) == [t |-> "arr", a |-> a]
JObj(o) == [t |-> "obj", o |-> o]

\* serde_json::Map is a BTreeMap: the keys of an object in their order.
KeyOrder == <<"column", "data", "errors", "extensions", "line", "locations",
              "message", "path", "query", "variables", "x">>

SortedKeys(o) == SelectSeq(KeyOrder, LAMBDA k : k \in DOMAIN o)

\* A JSON string's characters as serde_json writes them: a line feed is written
\* as the two characters backslash, n.
EscapeAtom(c) == IF c = NL THEN "\\n" ELSE c

Escape(s) == [i \in 1..Len(s) |-> EscapeAtom(s[i])]

RECURSIVE ToText(_)
\* serde_json's compact text of a value (Value::to_string, RequestBuilder::json).
ToText(j) ==
    CASE j.t = "null" -> <<"null">>
      [] j.t = "num" -> <<ToString(j.n)>>
      [] j.t = "str" -> <<"\"">> \o Escape(j.s) \o <<"\"">>
      [] j.t = "arr" ->
            <<"[">> \o Join([i \in 1..Len(j.a) |-> ToText(j.a[i])], <<",">>) \o <<"]">>
      [] j.t = "obj" ->
            LET ks == SortedKeys(j.o)
            IN  <<"{">>
                \o Join([i \in 1..Len(ks) |->
                            <<"\"", ks[i], "\"", ":">> \o ToText(j.o[ks[i]])], <<",">>)
                \o <<"}">>

\* ------------------------------------------------------- error.rs: the types

\* u32's Deserialize: a number that is not negative (every number of the
\* model is below 2^32).
IsU32(j) == j.t = "num" /\ j.n >= 0

IsAbsent(o, k) == k \notin DOMAIN o \/ o[k] = JNull

\* GraphQLErrorLocation {line, column}: a derived struct reads a map holding
\* both fields, or a sequence of exactly its two fields.
IsLocation(j) ==
    \/ j.t = "obj" /\ {"line", "column"} \subseteq DOMAIN j.o
                   /\ IsU32(j.o["line"]) /\ IsU32(j.o["column"])
    \/ j.t = "arr" /\ Len(j.a) = 2 /\ IsU32(j.a[1]) /\ IsU32(j.a[2])

GraphQLErrorLocation(j) ==
    IF j.t = "obj" THEN [line |-> j.o["line"].n, column |-> j.o["column"].n]
    ELSE [line |-> j.a[1].n, column |-> j.a[2].n]

\* GraphQLErrorPathParam, untagged: a string, else a u32, else no match.
IsPathParam(j) == j.t = "str" \/ IsU32(j)

GraphQLErrorPathParam(j) ==
    IF j.t = "str" THEN [variant |-> "String", s |-> j.s]
    ELSE [variant |-> "Number", n |-> j.n]

\* Whether the first variant of GraphQLErrorMessage reads j: an untagged struct
\* variant reads a map only; message is required, the other fields are
\* Options (missing or null is None) and unknown keys are ignored.
IsConventionalError(j) ==
    /\ j.t = "obj"
    /\ "message" \in DOMAIN j.o
    /\ j.o["message"].t = "str"
    /\ \/ IsAbsent(j.o, "locations")
       \/ /\ j.o["locations"].t = "arr"
          /\ \A i \in 1..Len(j.o["locations"].a) : IsLocation(j.o["locations"].a[i])
    /\ \/ IsAbsent(j.o, "path")
       \/ /\ j.o["path"].t = "arr"
          /\ \A i \in 1..Len(j.o["path"].a) : IsPathParam(j.o["path"].a[i])

ConventionalError(j) ==
    [variant |-> "ConventionalError",
     message |-> j.o["message"].s,
     locations |->
        IF IsAbsent(j.o, "locations") THEN None
        ELSE Some([i \in 1..Len(j.o["locations"].a) |->
                      GraphQLErrorLocation(j.o["locations"].a[i])]),
     extensions |->
        IF IsAbsent(j.o, "extensions") THEN None ELSE Some(j.o["extensions"]),
     path |->
        IF IsAbsent(j.o, "path") THEN None
        ELSE Some([i \in 1..Len(j.o["path"].a) |->
                      GraphQLErrorPathParam(j.o["path"].a[i])])]

\* A mutant of UnconventionalError: the value is kept as its text.
UnconventionalErrorAsText(value) ==
    [variant |-> "UnconventionalError", value |-> JStr(ToText(value))]

UnconventionalError(value) == [variant |-> "UnconventionalError", value |-> value]

\* Deserialize for GraphQLErrorMessage (untagged): the first variant that
\* reads the value; the second reads every value.
GraphQLErrorMessage(j) ==
    IF IsConventionalError(j) THEN ConventionalError(j) ELSE UnconventionalError(j)

\* GraphQLErrorMessage::message
message(e) ==
    IF e.variant = "ConventionalError" THEN e.message ELSE ToText(e.value)

\* --------------------------------------------------- error.rs: GraphQLError

\* A mutant of from_str: json is an empty list instead of None.
from_str_with_json(s) == [message |-> s, json |-> Some(<<>>)]

from_str(s) == [message |-> s, json |-> None]

from_json(json) ==
    [message |-> <<"Look at json field for more details">>, json |-> Some(json)]

\* reqwest::Error's Display: what failed, then the url.
ErrorToString(error) ==
    <<(CASE error.kind = "request" -> "error sending request"
         [] error.kind = "body" -> "request or response body error"
         [] error.kind = "decode" -> "error decoding response body"),
      " for url (", error.url, ")">>

\* impl From<reqwest::Error> for GraphQLError
from(error) == [message |-> ErrorToString(error), json |-> None]

\* A mutant of format: the loop over json stops after its first entry.
format_first_entry(err) ==
    <<NL, "GQLClient Error: ">> \o err.message \o <<NL>>
    \o (IF ~err.json.some \/ err.json.v = <<>> THEN <<>>
        ELSE <<"Message: ">> \o message(err.json.v[1]) \o <<NL>>)

\* format: what Display and Debug write.
format(err) ==
    <<NL, "GQLClient Error: ">> \o err.message \o <<NL>>
    \o (IF ~err.json.some THEN <<>>
        ELSE Concat([i \in 1..Len(err.json.v) |->
                        <<"Message: ">> \o message(err.json.v[i]) \o <<NL>>]))

\* ------------------------------------------ client.rs: the response's types

\* The caller's type K of query_with_vars::<K, T>: u32, String, or a derived
\* struct X {x: u32}.
Types == {"u32", "String", "X"}

\* Whether K's Deserialize reads j.  A derived struct reads a map holding its
\* field, or a sequence of exactly its one field.
Decodable(K, j) ==
    CASE K = "u32" -> IsU32(j)
      [] K = "String" -> j.t = "str"
      [] K = "X" -> \/ j.t = "obj" /\ "x" \in DOMAIN j.o /\ IsU32(j.o["x"])
                    \/ j.t = "arr" /\ Len(j.a) = 1 /\ IsU32(j.a[1])

\* The value of type K read from j.
Decode(K, j) ==
    CASE K = "u32" -> j.n
      [] K = "String" -> j.s
      [] K = "X" -> IF j.t = "obj" THEN [x |-> j.o["x"].n] ELSE [x |-> j.a[1].n]

\* A mutant of IsConventionResponse: errors is no Option, so the key has to be
\* there.
IsConventionResponseErrorsRequired(K, j) ==
    /\ j.t = "obj"
    /\ IsAbsent(j.o, "data") \/ Decodable(K, j.o["data"])
    /\ "errors" \in DOMAIN j.o /\ j.o["errors"].t = "arr"

\* Whether the first variant of GraphQLResponse<K> reads j: a map whose data,
\* when there and not null, is a K and whose errors, when there and not null,
\* is an array (each element is a GraphQLErrorMessage, which reads anything).
IsConventionResponse(K, j) ==
    /\ j.t = "obj"
    /\ IsAbsent(j.o, "data") \/ Decodable(K, j.o["data"])
    /\ IsAbsent(j.o, "errors") \/ j.o["errors"].t = "arr"

ConventionResponse(K, j) ==
    [variant |-> "ConventionResponse",
     data |-> IF IsAbsent(j.o, "data") THEN None ELSE Some(Decode(K, j.o["data"])),
     errors |->
        IF IsAbsent(j.o, "errors") THEN None
        ELSE Some([i \in 1..Len(j.o["errors"].a) |->
                      GraphQLErrorMessage(j.o["errors"].a[i])])]

UnconventionalResponse(value) ==
    [variant |-> "UnconventionalResponse", value |-> value]

\* Deserialize for GraphQLResponse<K> (untagged): the first variant, else the
\* raw value.
GraphQLResponse(K, j) ==
    IF IsConventionResponse(K, j) THEN ConventionResponse(K, j)
    ELSE UnconventionalResponse(j)

Ok(x) == [tag |-> "Ok", val |-> x]
Err(e) == [tag |-> "Err", err |-> e]
\* Option::unwrap on None: the thread panics and the call returns nothing.
Panic == [tag |-> "Panic"]
Pending == [tag |-> "Pending"]

\* A mutant of MatchResponse: data is looked at before errors, so a response
\* that carries both returns its data.
MatchResponseDataFirst(json_response) ==
    IF json_response.tag = "Err" THEN Err(from_str(<<"Failed to parse response">>))
    ELSE LET r == json_response.val
         IN  IF r.variant = "UnconventionalResponse"
             THEN Err([message |-> <<"Couldn't parse the result.">>,
                       json |-> Some(<<UnconventionalError(r.value)>>)])
             ELSE IF r.data.some THEN Ok(r.data.v)
             ELSE IF r.errors.some THEN Err(from_json(r.errors.v))
             ELSE Panic

\* The match on json_response that ends query_with_vars.
MatchResponse(json_response) ==
    IF json_response.tag = "Err" THEN Err(from_str(<<"Failed to parse response">>))
    ELSE LET r == json_response.val
         IN  IF r.variant = "UnconventionalResponse"
             THEN Err([message |-> <<"Couldn't parse the result.">>,
                       json |-> Some(<<UnconventionalError(r.value)>>)])
             ELSE IF r.errors.some THEN Err(from_json(r.errors.v))
             ELSE IF r.data.some THEN Ok(r.data.v)
             ELSE Panic

\* ------------------------------------------------- what a server may answer

\* Elements of an `errors` array: a conventional error, a conventional error
\* with locations and a two-line message, and an object whose message is no
\* string.
ErrorElems ==
    {JObj([message |-> JStr(<<"boom">>)]),
     JObj([message |-> JStr(<<"a", NL, "b">>),
           locations |-> JArr(<<JObj([line |-> JNum(1), column |-> JNum(2)])>>)]),
     JObj([message |-> JNum(7)])}

ErrorArrays ==
    UNION {[1..n -> ErrorElems] : n \in 0..MaxErrors}

\* What the `errors` key holds, when there: null, a string, or an array.
ErrorsFields == {JNull, JStr(<<"oops">>)} \cup {JArr(a) : a \in ErrorArrays}

\* What the `data` key holds, when there.
DataFields ==
    {JNull, JNum(1), JNum(-1), JStr(<<"s">>), JObj([x |-> JNum(1)])}

ResponseObjects ==
    {JObj(<<>>)}
    \cup {JObj([data |-> d]) : d \in DataFields}
    \cup {JObj([errors |-> e]) : e \in ErrorsFields}
    \cup {JObj([data |-> d, errors |-> e]) : d \in DataFields, e \in ErrorsFields}

\* Valid JSON that is no object.
NonObjects == {JNull, JNum(1), JStr(<<"s">>), JArr(<<JNum(1), JNum(2), JNum(3)>>)}

JsonValues == ResponseObjects \cup NonObjects

\* Bodies that are no JSON: text, the empty body, a cut-off object.
NotJson == {<<"not json">>, <<>>, <<"{", "\"", "data", "\"", ":">>}

\* serde_json::from_slice on the bodies of the model: the value whose text the
\* body is, or nothing when the body is the text of no value.
JsonOfText ==
    [t \in {ToText(j) : j \in JsonValues} |->
        CHOOSE j \in JsonValues : ToText(j) = t]

from_slice(text) ==
    IF text \in DOMAIN JsonOfText THEN Ok(JsonOfText[text])
    ELSE Err("expected value")

\* What the network hands to Response::json: the body's bytes, or a failure
\* while the body is being received.
Deliveries ==
    {[kind |-> "bytes", text |-> t] : t \in DOMAIN JsonOfText \cup NotJson}
    \cup {[kind |-> "body_error"]}

\* The deliveries of the specification of the shared client.
FewDeliveries ==
    {[kind |-> "bytes", text |-> ToText(j)] :
        j \in {JObj([data |-> JNum(1)]),
               JObj([errors |-> JArr(<<JObj([message |-> JStr(<<"boom">>)])>>)])}}
    \cup {[kind |-> "bytes", text |-> <<"not json">>]}

\* Response::json::<GraphQLResponse<K>>: the body is received whole, then read
\* as JSON; either step may fail with a reqwest::Error.
json(K, delivery, url) ==
    IF delivery.kind = "body_error" THEN Err([kind |-> "body", url |-> url])
    ELSE LET parsed == from_slice(delivery.text)
         IN  IF parsed.tag = "Err" THEN Err([kind |-> "decode", url |-> url])
             ELSE Ok(GraphQLResponse(K, parsed.val))

\* ------------------------------------------------------ client.rs: headers

\* HeaderName::from_str: the name in lower case; a name holding a space or a
\* control character is refused.
LowerAtom(c) ==
    CASE c = "X" -> "x"
      [] c = "C" -> "c"
      [] c = "T" -> "t"
      [] OTHER -> c

HeaderName(s) ==
    IF s = <<>> \/ \E i \in 1..Len(s) : s[i] \in {" ", NL}
    THEN Err("InvalidHeaderName")
    ELSE Ok([i \in 1..Len(s) |-> LowerAtom(s[i])])

\* HeaderValue::from_str: the value as given; a control character is refused.
HeaderValue(s) ==
    IF \E i \in 1..Len(s) : s[i] = NL THEN Err("InvalidHeaderValue") ELSE Ok(s)

\* HeaderMap::insert: the value of key is replaced.
insert(header_map, key, val) ==
    [n \in DOMAIN header_map \cup {key} |-> IF n = key THEN val ELSE header_map[n]]

EmptyMap == [n \in {} |-> <<>>]

RECURSIVE InsertAll(_, _, _)
\* The loop of new_with_headers over the HashMap's entries in the order the
\* map yields them; an unwrap of a refused name or value panics.
InsertAll(header_map, headers, order) ==
    IF order = <<>> THEN Ok(header_map)
    ELSE LET key == HeaderName(Head(order))
             val == HeaderValue(headers[Head(order)])
         IN  IF key.tag = "Err" \/ val.tag = "Err" THEN Panic
             ELSE InsertAll(insert(header_map, key.val, val.val), headers, Tail(order))

\* The orders in which a HashMap may yield its keys.
Orders(S) ==
    {o \in [1..Cardinality(S) -> S] : \A i, j \in 1..Cardinality(S) : o[i] = o[j] => i = j}

HeaderNames ==
    {<<"X", "-token">>, <<"x", "-token">>, <<"C", "ontent-", "T", "ype">>,
     <<"bad", " ", "name">>}

HeaderValues == {<<"v1">>, <<"v2">>, <<"v", NL>>}

\* The mappings handed to new_with_headers.
HeaderArgs ==
    UNION {[S -> HeaderValues] : S \in {T \in SUBSET HeaderNames : Cardinality(T) <= MaxHeaders}}

\* The mappings of the specification of the single call.
FewHeaderArgs ==
    {h \in HeaderArgs :
        /\ DOMAIN h \subseteq {<<"X", "-token">>, <<"C", "ontent-", "T", "ype">>}
        /\ \A n \in DOMAIN h : h[n] = <<"v1">>}

Endpoints == {"http://a/graphql", "http://b/graphql"}

\* ------------------------------------------------------ client.rs: requests

Queries == {<<"{ me }">>, <<"query {", NL, " me }">>}

\* The JSON of the caller's variables: a struct, or the unit of query().
Unit == JNull
Variables == {Unit, JObj([x |-> JNum(1)])}

\* RequestBody {query, variables}
RequestBody(query, variables) == JObj([query |-> JStr(query), variables |-> variables])

\* A mutant of BuildRequest: the call to headers() is left out.
BuildRequestWithoutHeaders(endpoint, header_map, body) ==
    [method |-> "POST",
     url |-> endpoint,
     headers |-> [n \in {<<"c", "ontent-", "t", "ype">>} |-> <<"application/json">>],
     body |-> ToText(body)]

\* client.post(endpoint).json(&body).headers(header_map.clone()): json() sets
\* content-type when the request has none, headers() then replaces the value of
\* every name header_map holds.
BuildRequest(endpoint, header_map, body) ==
    [method |-> "POST",
     url |-> endpoint,
     headers |-> [n \in {<<"c", "ontent-", "t", "ype">>} \cup DOMAIN header_map |->
                     IF n \in DOMAIN header_map THEN header_map[n]
                     ELSE <<"application/json">>],
     body |-> ToText(body)]

\* --------------------------------------------------------------- the state

VARIABLES
    client,    \* the GQLClient: its state, endpoint and header_map
    supplied,  \* the mapping the constructor was given
    calls,     \* each call of query_with_vars: where it stands and what it holds
    wire       \* the requests each call has put on the network, in order

vars == <<client, supplied, calls, wire>>

IdleCall ==
    [pc |-> "idle", K |-> "u32", query |-> <<>>, variables |-> Unit,
     request |-> None, delivered |-> None, result |-> Pending, rendered |-> None]

NoClient == [state |-> "none", endpoint |-> "", header_map |-> EmptyMap]

Init ==
    /\ client = NoClient
    /\ supplied = EmptyMap
    /\ calls = [c \in {1} |-> IdleCall]
    /\ wire = [c \in {1} |-> <<>>]

InitShared ==
    /\ client = NoClient
    /\ supplied = EmptyMap
    /\ calls = [c \in 1..NumCalls |-> IdleCall]
    /\ wire = [c \in 1..NumCalls |-> <<>>]

\* ------------------------------------------------------------ construction

\* GQLClient::new
new(endpoint) ==
    /\ client.state = "none"
    /\ client' = [state |-> "ready", endpoint |-> endpoint, header_map |-> EmptyMap]
    /\ supplied' = EmptyMap
    /\ UNCHANGED <<calls, wire>>

\* GQLClient::new_with_headers; order is the order the HashMap yields its keys.
new_with_headers(endpoint, headers, order) ==
    /\ client.state = "none"
    /\ LET built == InsertAll(EmptyMap, headers, order)
       IN  client' = IF built.tag = "Panic"
                     THEN [state |-> "panicked", endpoint |-> endpoint,
                           header_map |-> EmptyMap]
                     ELSE [state |-> "ready", endpoint |-> endpoint,
                           header_map |-> built.val]
    /\ supplied' = headers
    /\ UNCHANGED <<calls, wire>>

\* ------------------------------------------------------------------- a call

\* query_with_vars up to the built request: the RequestBody and the request
\* with the client's endpoint and a clone of its header_map.
query_with_vars(c, K, query, variables) ==
    /\ client.state = "ready"
    /\ calls[c].pc = "idle"
    /\ calls' = [calls EXCEPT ![c] =
                    [@ EXCEPT !.pc = "Built", !.K = K, !.query = query,
                              !.variables = variables,
                              !.request = Some(BuildRequest(client.endpoint,
                                                   client.header_map,
                                                   RequestBody(query, variables)))]]
    /\ UNCHANGED <<client, supplied, wire>>

\* GQLClient::query: query_with_vars::<K, ()>(query, ())
query(c, K, q) == query_with_vars(c, K, q, Unit)

\* A mutant of send: the header_map is moved into the request instead of
\* cloned, which leaves the client's empty.
send_moving_headers(c) ==
    /\ calls[c].pc = "Built"
    /\ wire' = [wire EXCEPT ![c] = Append(@, calls[c].request.v)]
    /\ calls' = [calls EXCEPT ![c].pc = "Sent"]
    /\ client' = [client EXCEPT !.header_map = EmptyMap]
    /\ UNCHANGED supplied

\* request.send(): the POST goes out and the call waits.
send(c) ==
    /\ calls[c].pc = "Built"
    /\ wire' = [wire EXCEPT ![c] = Append(@, calls[c].request.v)]
    /\ calls' = [calls EXCEPT ![c].pc = "Sent"]
    /\ UNCHANGED <<client, supplied>>

\* send().await? with Err: the reqwest::Error becomes the call's GraphQLError.
send_fails(c) ==
    /\ calls[c].pc = "Sent"
    /\ LET error == [kind |-> "request", url |-> calls[c].request.v.url]
       IN  calls' = [calls EXCEPT ![c] =
                        [@ EXCEPT !.pc = "done",
                                  !.delivered = Some([kind |-> "send_error",
                                                      error |-> error]),
                                  !.result = Err(from(error))]]
    /\ UNCHANGED <<client, supplied, wire>>

\* send().await? with Ok: the response's head is here, of whatever status.
send_ok(c) ==
    /\ calls[c].pc = "Sent"
    /\ calls' = [calls EXCEPT ![c].pc = "Receiving"]
    /\ UNCHANGED <<client, supplied, wire>>

\* raw_response.json().await and the match on it.
json_done(c, delivery) ==
    /\ calls[c].pc = "Receiving"
    /\ LET json_response == json(calls[c].K, delivery, calls[c].request.v.url)
           result == MatchResponse(json_response)
       IN  calls' = [calls EXCEPT ![c] =
                        [@ EXCEPT !.pc = IF result.tag = "Panic" THEN "panicked"
                                         ELSE "done",
                                  !.delivered = Some(delivery),
                                  !.result = result]]
    /\ UNCHANGED <<client, supplied, wire>>

\* Display::fmt and Debug::fmt of the GraphQLError a call returned.
fmt(c, trait) ==
    /\ calls[c].pc = "done"
    /\ calls[c].result.tag = "Err"
    /\ ~calls[c].rendered.some
    /\ calls' = [calls EXCEPT ![c].rendered =
                    Some([trait |-> trait, text |-> format(calls[c].result.err)])]
    /\ UNCHANGED <<client, supplied, wire>>

\* ------------------------------------------------------- the specifications

\* One call on a client, every answer of the model.
Next ==
    \/ \E e \in Endpoints : new(e)
    \/ \E e \in Endpoints, h \in FewHeaderArgs : \E o \in Orders(DOMAIN h) :
          new_with_headers(e, h, o)
    \/ \E c \in DOMAIN calls, K \in Types, q \in Queries, v \in Variables :
          query_with_vars(c, K, q, v)
    \/ \E c \in DOMAIN calls, K \in Types, q \in Queries : query(c, K, q)
    \/ \E c \in DOMAIN calls : send(c)
    \/ \E c \in DOMAIN calls : send_fails(c)
    \/ \E c \in DOMAIN calls : send_ok(c)
    \/ \E c \in DOMAIN calls, d \in Deliveries : json_done(c, d)
    \/ \E c \in DOMAIN calls, trait \in {"Display", "Debug"} : fmt(c, trait)

Spec == Init /\ [][Next]_vars

\* Concurrent calls on one shared client, every header mapping of the model.
NextShared ==
    \/ \E e \in Endpoints : new(e)
    \/ \E h \in HeaderArgs : \E o \in Orders(DOMAIN h) :
          new_with_headers("http://a/graphql", h, o)
    \/ \E c \in DOMAIN calls, v \in Variables \ {Unit} :
          query_with_vars(c, "u32", <<"{ me }">>, v)
    \/ \E c \in DOMAIN calls : query(c, "u32", <<"{ me }">>)
    \/ \E c \in DOMAIN calls : send(c)
    \/ \E c \in DOMAIN calls : send_fails(c)
    \/ \E c \in DOMAIN calls : send_ok(c)
    \/ \E c \in DOMAIN calls, d \in FewDeliveries : json_done(c, d)

SpecShared == InitShared /\ [][NextShared]_vars

\* ------------------------------------------------------------- the claims

Ended(c) == calls[c].pc \in {"done", "panicked"}

\* The call ended after its body arrived as bytes.
GotBytes(c) ==
    /\ Ended(c)
    /\ calls[c].delivered.some
    /\ calls[c].delivered.v.kind = "bytes"

\* The call ended after its body arrived as the text of a JSON value.
GotJson(c) == GotBytes(c) /\ from_slice(calls[c].delivered.v.text).tag = "Ok"

BodyJson(c) == from_slice(calls[c].delivered.v.text).val

\* The key is there and its value is not null.
Has(j, k) == j.t = "obj" /\ k \in DOMAIN j.o /\ j.o[k] # JNull

\* The body is an object that includes an `errors` array.
HasErrorsArray(j) == Has(j, "errors") /\ j.o["errors"].t = "arr"

\* The entry of GraphQLError.json holds the element of the `errors` array.
EntryHolds(entry, elem) ==
    IF entry.variant = "ConventionalError"
    THEN elem.t = "obj" /\ "message" \in DOMAIN elem.o
                        /\ elem.o["message"] = JStr(entry.message)
    ELSE entry.value = elem

\* The call failed with the fixed message of from_json and one entry per element
\* of the array, in the array's order.
FailedWithErrorList(c, array) ==
    /\ calls[c].result.tag = "Err"
    /\ calls[c].result.err.message = <<"Look at json field for more details">>
    /\ calls[c].result.err.json.some
    /\ Len(calls[c].result.err.json.v) = Len(array)
    /\ \A i \in 1..Len(array) : EntryHolds(calls[c].result.err.json.v[i], array[i])

\* The call failed with the fixed message of the fallback and the whole value as
\* its one entry.
FailedUnconventional(c, value) ==
    /\ calls[c].result.tag = "Err"
    /\ calls[c].result.err.message = <<"Couldn't parse the result.">>
    /\ calls[c].result.err.json = Some(<<[variant |-> "UnconventionalError",
                                          value |-> value]>>)

\* C1 (as claimed): whatever the server answers, the call returns Ok or Err to
\* its caller and never panics.
C1_NeverPanics ==
    \A c \in DOMAIN calls : Ended(c) => calls[c].result.tag \in {"Ok", "Err"}

\* C2 (as claimed): a JSON object that includes an `errors` array makes the call
\* fail with the error list, whatever `data` is, decodable into K or not.
C2_ErrorsArrayAlwaysErrorList ==
    \A c \in DOMAIN calls :
        GotJson(c) /\ HasErrorsArray(BodyJson(c))
        => FailedWithErrorList(c, BodyJson(c).o["errors"].a)

\* C2 (amended): a JSON object that includes an `errors` array makes the call
\* fail with the error list when `data` is absent, null or decodable into K;
\* when `data` is there and not decodable into K the call fails with the
\* fallback error that wraps the whole body.
C2_ErrorsArrayErrorList ==
    \A c \in DOMAIN calls :
        GotJson(c) /\ HasErrorsArray(BodyJson(c))
        => IF Has(BodyJson(c), "data") /\ ~Decodable(calls[c].K, BodyJson(c).o["data"])
           THEN FailedUnconventional(c, BodyJson(c))
           ELSE FailedWithErrorList(c, BodyJson(c).o["errors"].a)

\* A call ended on an object with two errors and a decodable `data`.
C2_Witness ==
    \E c \in DOMAIN calls :
        /\ GotJson(c) /\ HasErrorsArray(BodyJson(c))
        /\ Len(BodyJson(c).o["errors"].a) = 2
        /\ BodyJson(c).o["errors"].a[1] # BodyJson(c).o["errors"].a[2]
        /\ Has(BodyJson(c), "data") /\ Decodable(calls[c].K, BodyJson(c).o["data"])
        /\ calls[c].result.tag = "Err"

\* The value of type K that the `data` field d holds.
ExpectedData(K, d) ==
    CASE K = "u32" -> d.n
      [] K = "String" -> d.s
      [] K = "X" -> [x |-> d.o["x"].n]

\* C3: a JSON object without errors whose `data` is there and decodable into K
\* makes the call return Ok with the value decoded from `data`.
C3_DataReturned ==
    \A c \in DOMAIN calls :
        /\ GotJson(c)
        /\ BodyJson(c).t = "obj"
        /\ ~Has(BodyJson(c), "errors")
        /\ Has(BodyJson(c), "data")
        /\ Decodable(calls[c].K, BodyJson(c).o["data"])
        => calls[c].result = Ok(ExpectedData(calls[c].K, BodyJson(c).o["data"]))

\* A call into the struct X ended on {"data":{"x":1}}.
C3_Witness ==
    \E c \in DOMAIN calls :
        /\ GotJson(c)
        /\ calls[c].K = "X"
        /\ BodyJson(c) = JObj([data |-> JObj([x |-> JNum(1)])])
        /\ calls[c].result.tag = "Ok"

\* C4 (as claimed): a transport failure, while sending or while the body is
\* being received, makes the call fail with the transport error's description
\* and no json, never with one of the fixed parse messages.
C4_TransportFailureDescribed ==
    \A c \in DOMAIN calls :
        /\ Ended(c)
        /\ calls[c].delivered.some
        /\ calls[c].delivered.v.kind \in {"send_error", "body_error"}
        => /\ calls[c].result.tag = "Err"
           /\ calls[c].result.err.json = None
           /\ calls[c].result.err.message
                 \notin {<<"Failed to parse response">>, <<"Couldn't parse the result.">>}
           /\ calls[c].result.err.message =
                 ErrorToString(IF calls[c].delivered.v.kind = "send_error"
                               THEN calls[c].delivered.v.error
                               ELSE [kind |-> "body", url |-> calls[c].request.v.url])

\* The body is valid JSON that the ConventionResponse shape does not fit: no
\* object, or an object whose data or errors has the wrong type.
NotConventionShape(K, j) ==
    \/ j.t # "obj"
    \/ Has(j, "data") /\ ~Decodable(K, j.o["data"])
    \/ Has(j, "errors") /\ j.o["errors"].t # "arr"

\* C5: valid JSON that does not fit the ConventionResponse shape makes the call
\* fail with "Couldn't parse the result." and the whole value, unchanged, as the
\* one UnconventionalError of json.
C5_UnconventionalWrapped ==
    \A c \in DOMAIN calls :
        GotJson(c) /\ NotConventionShape(calls[c].K, BodyJson(c))
        => FailedUnconventional(c, BodyJson(c))

\* A call ended on the bare array [1,2,3].
C5_Witness ==
    \E c \in DOMAIN calls :
        /\ GotJson(c)
        /\ BodyJson(c) = JArr(<<JNum(1), JNum(2), JNum(3)>>)
        /\ calls[c].result.tag = "Err"

\* C6: a body that is not valid JSON makes the call fail with "Failed to parse
\* response" and no json.
C6_NotJsonFailsToParse ==
    \A c \in DOMAIN calls :
        GotBytes(c) /\ calls[c].delivered.v.text \in NotJson
        => calls[c].result = Err([message |-> <<"Failed to parse response">>,
                                  json |-> None])

\* A call ended on the body `not json`.
C6_Witness ==
    \E c \in DOMAIN calls :
        /\ GotBytes(c)
        /\ calls[c].delivered.v.text = <<"not json">>
        /\ calls[c].result.tag = "Err"

\* The text of one entry of json: the message of a ConventionalError, the JSON
\* text of an UnconventionalError.
EntryText(entry) ==
    IF entry.variant = "ConventionalError" THEN entry.message ELSE ToText(entry.value)

HasNoLineFeed(s) == \A i \in 1..Len(s) : s[i] # NL

RECURSIVE MessageLines(_)
\* One "Message: <text>" and a line feed per entry, in the entries' order.
MessageLines(entries) ==
    IF entries = <<>> THEN <<>>
    ELSE <<"Message: ">> \o EntryText(Head(entries)) \o <<NL>>
         \o MessageLines(Tail(entries))

Rendered(c) == calls[c].rendered.some

\* C7 (as claimed): the first line of the rendering is "GQLClient Error:
\* <message>", followed by exactly one line "Message: <text>" per entry of json
\* in order, and by nothing when json is none.
C7_FirstLineIsSummary ==
    \A c \in DOMAIN calls :
        Rendered(c)
        => LET err == calls[c].result.err
               ls == Lines(calls[c].rendered.v.text)
               n == IF err.json.some THEN Len(err.json.v) ELSE 0
           IN  /\ Len(ls) = 1 + n
               /\ ls[1] = <<"GQLClient Error: ">> \o err.message
               /\ \A i \in 1..n : ls[i + 1] = <<"Message: ">> \o EntryText(err.json.v[i])

\* C7 (amended): the rendering is a line feed, then "GQLClient Error: <message>"
\* and a line feed, then per entry of json, in order, "Message: <text>" and a
\* line feed, and nothing more when json is none.  So the first line is empty
\* and the summary is the second line; where no <text> holds a line feed there
\* is exactly one "Message:" line per entry, and a <text> that holds line feeds
\* runs over as many lines more.
C7_Rendering ==
    \A c \in DOMAIN calls :
        Rendered(c)
        => LET err == calls[c].result.err
               text == calls[c].rendered.v.text
               ls == Lines(text)
               entries == IF err.json.some THEN err.json.v ELSE <<>>
           IN  /\ text = <<NL, "GQLClient Error: ">> \o err.message \o <<NL>>
                         \o MessageLines(entries)
               /\ Len(ls) >= 2
               /\ ls[1] = <<>>
               /\ HasNoLineFeed(err.message)
                  => ls[2] = <<"GQLClient Error: ">> \o err.message
               /\ /\ HasNoLineFeed(err.message)
                  /\ \A i \in 1..Len(entries) : HasNoLineFeed(EntryText(entries[i]))
                  => /\ Len(ls) = 2 + Len(entries)
                     /\ \A i \in 1..Len(entries) :
                           ls[i + 2] = <<"Message: ">> \o EntryText(entries[i])

\* An error with a conventional and an unconventional entry was rendered.
C7_Witness ==
    \E c \in DOMAIN calls :
        /\ Rendered(c)
        /\ calls[c].result.err.json.some
        /\ Len(calls[c].result.err.json.v) = 2
        /\ calls[c].result.err.json.v[1].variant = "ConventionalError"
        /\ calls[c].result.err.json.v[2].variant = "UnconventionalError"

\* The name of a header as the wire carries it.
WireName(n) == HeaderName(n).val

\* C8 (as claimed): every entry of the mapping given to new_with_headers is on
\* every request, with its value, also when two names differ only in case.
C8_EveryEntryOnEveryRequest ==
    \A c \in DOMAIN calls : \A i \in 1..Len(wire[c]) : \A n \in DOMAIN supplied :
        /\ WireName(n) \in DOMAIN wire[c][i].headers
        /\ wire[c][i].headers[WireName(n)] = supplied[n]

\* C8 (amended): every name of the mapping given to new_with_headers is, in
\* lower case, on every request; it carries the entry's value when no other
\* supplied name differs from it only in case, and otherwise the value of one
\* of the entries whose names differ only in case, the same one on every
\* request.
C8_EntriesOnEveryRequest ==
    \A c \in DOMAIN calls : \A i \in 1..Len(wire[c]) : \A n \in DOMAIN supplied :
        /\ WireName(n) \in DOMAIN wire[c][i].headers
        /\ wire[c][i].headers[WireName(n)]
              \in {supplied[m] : m \in {k \in DOMAIN supplied : WireName(k) = WireName(n)}}
        /\ wire[c][i].headers[WireName(n)] = client.header_map[WireName(n)]

\* Two calls went out from a client built from two names that differ only in
\* case and carry different values.
C8_Witness ==
    /\ \A c \in DOMAIN calls : Len(wire[c]) = 1
    /\ \E n, m \in DOMAIN supplied :
          n # m /\ WireName(n) = WireName(m) /\ supplied[n] # supplied[m]

\* The terminal outcome of a call.
Outcome(c) ==
    CASE calls[c].result.tag = "Ok" -> "Succeeded"
      [] calls[c].result.tag = "Panic" -> "Aborted"
      [] calls[c].result.tag = "Err" ->
            IF calls[c].delivered.v.kind = "send_error" THEN "FailedTransport"
            ELSE IF calls[c].result.err.message = <<"Look at json field for more details">>
            THEN "FailedGraphQL"
            ELSE "FailedParse"

\* C9 (as claimed): a call puts exactly one POST to the configured endpoint on
\* the network, never a second one, and ends in one of Succeeded,
\* FailedTransport, FailedGraphQL and FailedParse.
C9_OnePostOneOutcome ==
    \A c \in DOMAIN calls :
        /\ Len(wire[c]) <= 1
        /\ calls[c].pc \notin {"idle", "Built"}
           => /\ Len(wire[c]) = 1
              /\ wire[c][1].method = "POST"
              /\ wire[c][1].url = client.endpoint
        /\ Ended(c)
           => Outcome(c) \in {"Succeeded", "FailedTransport", "FailedGraphQL", "FailedParse"}

\* C10: once built, the client is never modified, whatever the interleaving of
\* the calls; a call's request is made of the client's endpoint and headers and
\* the call's own query and variables, and two calls with the same arguments
\* and the same answer have the same request and the same result.
C10_Isolation ==
    /\ [][client.state # "none" => client' = client]_vars
    /\ [](\A c \in DOMAIN calls :
            calls[c].request.some
            => /\ calls[c].request.v.url = client.endpoint
               /\ \A n \in DOMAIN client.header_map :
                     /\ n \in DOMAIN calls[c].request.v.headers
                     /\ calls[c].request.v.headers[n] = client.header_map[n]
               /\ calls[c].request.v.body =
                     ToText(JObj([query |-> JStr(calls[c].query),
                                  variables |-> calls[c].variables])))
    /\ [](\A c, d \in DOMAIN calls :
            /\ calls[c].query = calls[d].query /\ calls[c].variables = calls[d].variables
               => calls[c].request = calls[d].request
            /\ Ended(c) /\ Ended(d) /\ calls[c].K = calls[d].K
                        /\ calls[c].delivered = calls[d].delivered
               => calls[c].result = calls[d].result)

\* One call has ended while another, with other arguments, still waits for its
\* body, on a client that holds headers.
C10_Witness ==
    \E c, d \in DOMAIN calls :
        /\ calls[c].pc = "done" /\ calls[d].pc = "Receiving"
        /\ calls[c].variables # calls[d].variables
        /\ DOMAIN client.header_map # {}

====
